---- MODULE Spec2Model ----
(***************************************************************************)
(* Model of the packet dashboard (network_analyzer_ui_v2.py, the tkinter   *)
(* GUI) and of its companion HTTP API (network_api_backend.py).            *)
(*                                                                         *)
(* A string is a sequence of one-character strings, so that substring      *)
(* search, case folding, trimming and lexicographic order are computed.    *)
(* A missing cell of the CSV (pandas NaN) is the empty sequence <<>>: an   *)
(* empty CSV field is read as NaN.  An optional Python value (the result   *)
(* of dict.get) is <<>> for None and <<v>> for the value v.                *)
(***************************************************************************)
EXTENDS Integers, Sequences, FiniteSets, TLC

\* ------------------------------------------------------------------ bounds

\* The most rows a loaded table has.
MaxRows == 3

\* --------------------------------------------------------- program constants

\* df.head(200): the rows shown by the table widget and sent by /api/data.
DisplayCap == 200

\* value_counts().head(5): the bars of the destination chart.
TopN == 5

\* 1024 * 1024 bytes in the megabyte shown by the statistics.
BytesPerMb == 1024 * 1024

\* ------------------------------------------------------------------ strings

\* ord() of the characters the model's strings are written with.
Ord ==
    (" " :> 32) @@ ("(" :> 40) @@ ("." :> 46) @@ ("1" :> 49) @@ ("2" :> 50) @@
    ("A" :> 65) @@ ("B" :> 66) @@ ("C" :> 67) @@ ("D" :> 68) @@ ("P" :> 80) @@
    ("T" :> 84) @@ ("U" :> 85) @@ ("a" :> 97) @@ ("b" :> 98) @@ ("c" :> 99)

Chars == DOMAIN Ord

\* str.lower() of one character (ASCII letters only).
LowerChar(c) ==
    IF Ord[c] >= 65 /\ Ord[c] <= 90
    THEN IF \E d \in Chars : Ord[d] = Ord[c] + 32
         THEN CHOOSE d \in Chars : Ord[d] = Ord[c] + 32
         ELSE c
    ELSE c

\* Python's < on str: lexicographic by code point.
RECURSIVE StrLess(_, _)
StrLess(a, b) ==
    IF b = <<>> THEN FALSE
    ELSE IF a = <<>> THEN TRUE
    ELSE IF Ord[Head(a)] # Ord[Head(b)] THEN Ord[Head(a)] < Ord[Head(b)]
    ELSE StrLess(Tail(a), Tail(b))

\* str.strip(): leading and trailing whitespace removed.
RECURSIVE LStrip(_)
LStrip(s) == IF s # <<>> /\ Head(s) = " " THEN LStrip(Tail(s)) ELSE s

RECURSIVE RStrip(_)
RStrip(s) ==
    IF s # <<>> /\ s[Len(s)] = " " THEN RStrip(SubSeq(s, 1, Len(s) - 1)) ELSE s

Strip(s) == RStrip(LStrip(s))

\* Optional values: dict.get(key) is None or the value.
None == <<>>
Some(v) == <<v>>
IsNone(o) == o = <<>>
Val(o) == o[1]

\* ------------------------------------------------------------ regular expressions

\* re.compile(pat) raises re.error ("missing ), unterminated subpattern")
\* when the pattern opens a group it never closes.  The patterns of the
\* model are written with letters, digits, spaces, "." and "(".
ReCompileRaises(pat) == \E i \in 1..Len(pat) : pat[i] = "("

\* One pattern character against one subject character under re.IGNORECASE:
\* "." matches any character, every other character matches itself.
ReCharMatches(p, c) == p = "." \/ LowerChar(p) = LowerChar(c)

\* re.search(pat, s, re.IGNORECASE) is not None, for a pattern that compiles.
ReSearch(pat, s) ==
    \E i \in 0..(Len(s) - Len(pat)) :
        \A k \in 1..Len(pat) : ReCharMatches(pat[k], s[i + k])

\* One cell of Series.str.contains(pat, case=False, na=False): the default
\* regex=True searches pat as a regular expression; a missing cell is False.
StrContains(cell, pat) == cell # <<>> /\ ReSearch(pat, cell)

\* ------------------------------------------------------------------ records

Columns == <<"Timestamp", "Source IP", "Dest IP", "Protocol", "Length", "Port">>
ColumnSet == {Columns[i] : i \in 1..Len(Columns)}
StringColumns == {"Source IP", "Dest IP", "Protocol"}

\* The cell of row r in column c.  idx is the row's index label, which
\* pandas keeps through copies, selections and sorts.
Cell(r, c) ==
    CASE c = "Timestamp" -> r.ts
      [] c = "Source IP" -> r.src
      [] c = "Dest IP"   -> r.dst
      [] c = "Protocol"  -> r.proto
      [] c = "Length"    -> r.len
      [] c = "Port"      -> r.port

\* A cell is missing (NaN) when its column may miss values and it is empty.
\* Timestamp and Length are numbers in every row.
IsMissing(col, v) == col \notin {"Timestamp", "Length"} /\ v = <<>>

Row(ts, src, dst, proto, len, port) ==
    [idx |-> 0, ts |-> ts, src |-> src, dst |-> dst, proto |-> proto,
     len |-> len, port |-> port]

TCP == <<"T", "C", "P">>
UDP == <<"U", "D", "P">>
All == <<"A", "l", "l">>

\* The rows CSV files are cut from.  The first three are the table of the
\* specification's scenarios; the others add dotted addresses, a missing
\* source address, a missing port and equal timestamps.  No address reads
\* as a number, so that read_csv keeps every address it finds as a string.
Pool ==
    << Row(60,  <<"A">>,           <<"B">>,           TCP, 100, <<80>>),
       Row(120, <<"A">>,           <<"C">>,           UDP, 200, <<53>>),
       Row(185, <<"C">>,           <<"B">>,           TCP, 50,  <<80>>),
       Row(185, <<"1", ".", "1", ".", "1">>, <<"1", "2", "1", "a">>, UDP, 51, <<>>),
       Row(30,  <<>>,              <<"B">>,           TCP, 100, <<53>>) >>

\* pd.read_csv: the rows of a file, labelled 0, 1, 2, ... in file order.
ReadCsv(rows) == [i \in 1..Len(rows) |-> [rows[i] EXCEPT !.idx = i - 1]]

\* The files the model loads: every run of at most MaxRows rows of the
\* pool.
Files ==
    { SubSeq(Pool, i, j) : i \in 1..Len(Pool), j \in 1..Len(Pool) }

Tables ==
    { ReadCsv(f) : f \in { g \in Files : Len(g) >= 1 /\ Len(g) <= MaxRows } }

\* The text of a CSV field reads as a number: digits with at most one ".".
IsNumericText(s) ==
    /\ \E i \in 1..Len(s) : s[i] \in {"1", "2"}
    /\ \A i \in 1..Len(s) : s[i] \in {"1", "2", "."}
    /\ Cardinality({i \in 1..Len(s) : s[i] = "."}) <= 1

\* The type pd.read_csv infers for an address or protocol column of the
\* table rows: object (strings) when some field of the column is text that
\* is no number; a numeric type when every field is a number or the column
\* is all missing (float64).  Only an object column has the .str accessor.
IsStringColumn(rows, col) ==
    \E i \in 1..Len(rows) :
        /\ Cell(rows[i], col) # <<>>
        /\ ~IsNumericText(Cell(rows[i], col))

\* A DataFrame variable: None, or the rows of a frame.
NoFrame == [isNone |-> TRUE, rows |-> <<>>]
Frame(rows) == [isNone |-> FALSE, rows |-> rows]

\* ------------------------------------------------------------------ filtering

\* filtered_df[filtered_df['Protocol'] == selected_protocol]
SelectProtocol(rows, protocol) == SelectSeq(rows, LAMBDA r : r.proto = protocol)

\* filtered_df[filtered_df[col].str.contains(pat, case=False, na=False)],
\* for a string column and a pattern that compiles.
SelectContains(rows, col, pat) ==
    SelectSeq(rows, LAMBDA r : StrContains(Cell(r, col), pat))

\* A filter or sort step either raises or yields rows.
Raised(exc) == [raised |-> TRUE, exc |-> exc, rows |-> <<>>]
Returned(rows) == [raised |-> FALSE, exc |-> "", rows |-> rows]

\* The three filters in the order both front ends apply them, on the
\* table rows.  protocol, source_ip and dest_ip are the strings the code
\* tests for truth: an empty string applies no filter.  An address filter
\* raises AttributeError ("Can only use .str accessor with string values!")
\* when the table's column is not a string column, before the pattern is
\* looked at, and re.error when the pattern does not compile.
ApplyFilters(rows, protocol, source_ip, dest_ip) ==
    LET byProtocol ==
            IF protocol # <<>> /\ protocol # All
            THEN SelectProtocol(rows, protocol) ELSE rows
    IN  IF source_ip # <<>> /\ ~IsStringColumn(rows, "Source IP")
        THEN Raised("AttributeError")
        ELSE IF source_ip # <<>> /\ ReCompileRaises(source_ip)
        THEN Raised("re.error")
        ELSE LET bySource ==
                     IF source_ip # <<>>
                     THEN SelectContains(byProtocol, "Source IP", source_ip)
                     ELSE byProtocol
             IN  IF dest_ip # <<>> /\ ~IsStringColumn(rows, "Dest IP")
                 THEN Raised("AttributeError")
                 ELSE IF dest_ip # <<>> /\ ReCompileRaises(dest_ip)
                 THEN Raised("re.error")
                 ELSE Returned(IF dest_ip # <<>>
                               THEN SelectContains(bySource, "Dest IP", dest_ip)
                               ELSE bySource)

\* -------------------------------------------------------------------- sorting

\* Python's < on two present cells of one column.
CellLess(col, a, b) ==
    IF col \in StringColumns THEN StrLess(a, b)
    ELSE IF col = "Port" THEN a[1] < b[1]
    ELSE a < b

\* rows is in the order sort_values(by=col, ascending=ascending) asks for:
\* present cells in order, missing cells last (na_position='last') in either
\* direction.
IsSortedBy(rows, col, ascending) ==
    \A i \in 1..Len(rows) : \A j \in (i + 1)..Len(rows) :
        LET a == Cell(rows[i], col)
            b == Cell(rows[j], col)
        IN  IF IsMissing(col, a) THEN IsMissing(col, b)
            ELSE IF IsMissing(col, b) THEN TRUE
            ELSE IF ascending THEN ~CellLess(col, b, a)
            ELSE ~CellLess(col, a, b)

\* sort_values with the direction dropped: always ascending.  The fault C6
\* rules out.
SortValuesAscendingOnly(rows, col, ascending) ==
    { s \in { [i \in 1..Len(rows) |-> rows[p[i]]] :
                  p \in Permutations(1..Len(rows)) } :
          IsSortedBy(s, col, TRUE) }

\* The rows sort_values(by=col, ascending=ascending) may leave, for a column
\* of the frame.  The call names no kind, so pandas sorts with its default,
\* quicksort, which promises no order among rows with equal keys: every
\* arrangement of the rows that is in order is a possible result.
SortValues(rows, col, ascending) ==
    { s \in { [i \in 1..Len(rows) |-> rows[p[i]]] :
                  p \in Permutations(1..Len(rows)) } :
          IsSortedBy(s, col, ascending) }

\* ----------------------------------------------------------------- statistics

RECURSIVE SumLength(_)
SumLength(rows) ==
    IF rows = <<>> THEN 0 ELSE Head(rows).len + SumLength(Tail(rows))

\* n / d to the nearest integer, halves to the even neighbour: what the
\* format specifications ".0f" and ".2f" print of a quotient.
RoundHalfEven(n, d) ==
    LET q == n \div d
        twice == 2 * (n % d)
    IN  IF twice < d THEN q
        ELSE IF twice > d THEN q + 1
        ELSE IF q % 2 = 0 THEN q ELSE q + 1

\* The present cells of a column, as a set.
Present(rows, col) ==
    {v \in {Cell(rows[i], col) : i \in 1..Len(rows)} : ~IsMissing(col, v)}

Count(rows, col, v) ==
    Cardinality({i \in 1..Len(rows) : Cell(rows[i], col) = v})

\* Series.mode(): the most frequent present values, sorted.
Modes(rows, col) ==
    {v \in Present(rows, col) :
        \A w \in Present(rows, col) : Count(rows, col, w) <= Count(rows, col, v)}

\* Series.mode()[0]: the least of the modes.  It raises when the column
\* holds no present value, for mode() is then empty.
ModeRaises(rows, col) == Present(rows, col) = {}
Mode0(rows, col) ==
    CHOOSE v \in Modes(rows, col) :
        \A w \in Modes(rows, col) : ~CellLess(col, w, v)

MinTs(rows) ==
    CHOOSE t \in Present(rows, "Timestamp") :
        \A u \in Present(rows, "Timestamp") : t <= u
MaxTs(rows) ==
    CHOOSE t \in Present(rows, "Timestamp") :
        \A u \in Present(rows, "Timestamp") : u <= t

\* strftime('%Y-%m-%d %H:%M') of an instant counted in seconds: the minute.
FormatMinute(ts) == ts \div 60

\* The eight statistics as the GUI labels and the JSON of /api/stats print
\* them, for rows whose modes exist.
StatsOf(rows) ==
    LET total_packets == Len(rows)
        total_data_bytes == SumLength(rows)
    IN  [ text |-> "stats",
          total_packets |-> total_packets,
          total_data_mb |-> RoundHalfEven(total_data_bytes * 100, BytesPerMb),
          total_data_bytes |-> total_data_bytes,
          avg_packet_size |->
              IF total_packets > 0
              THEN RoundHalfEven(total_data_bytes, total_packets) ELSE 0,
          top_protocol |-> Mode0(rows, "Protocol"),
          top_source_ip |-> Mode0(rows, "Source IP"),
          top_dest_ip |-> Mode0(rows, "Dest IP"),
          unique_protocols |-> Cardinality(Present(rows, "Protocol")),
          time_range |-> <<FormatMinute(MinTs(rows)), FormatMinute(MaxTs(rows))>> ]

\* The statistics raise before any of them is shown when a mode()[0] does.
StatsRaises(rows) ==
    \/ ModeRaises(rows, "Protocol")
    \/ ModeRaises(rows, "Source IP")
    \/ ModeRaises(rows, "Dest IP")

\* ---------------------------------------------------------------- frequencies

\* Series.value_counts(): one entry per present value with its count, most
\* frequent first.  The counts are ordered by the same sort_values, so the
\* order among equal counts is not promised either.
ValueCounts(rows, col) ==
    LET vals == Present(rows, col)
        n == Cardinality(vals)
    IN  { s \in [1..n -> vals] :
              /\ \A i \in 1..n : \A j \in (i + 1)..n : s[i] # s[j]
              /\ \A i \in 1..n : \A j \in (i + 1)..n :
                     Count(rows, col, s[i]) >= Count(rows, col, s[j]) }

\* The entries of a frequency result: value and count, in order.
Entries(rows, col, order) ==
    [i \in 1..Len(order) |-> [value |-> order[i], count |-> Count(rows, col, order[i])]]

\* Series.head(n) / DataFrame.head(n)
HeadN(s, n) == IF Len(s) <= n THEN s ELSE SubSeq(s, 1, n)

\* df['Protocol'].value_counts()
ProtocolCounts(rows) ==
    { Entries(rows, "Protocol", o) : o \in ValueCounts(rows, "Protocol") }

\* df['Dest IP'].value_counts().head(5)
TopDestIps(rows) ==
    { HeadN(Entries(rows, "Dest IP", o), TopN) : o \in ValueCounts(rows, "Dest IP") }

\* jsonify of a dict: flask writes the keys of a JSON object sorted, so
\* the entries are delivered in the order of their keys.
JsonObject(entries, col) ==
    CHOOSE s \in { [i \in 1..Len(entries) |-> entries[p[i]]] :
                       p \in Permutations(1..Len(entries)) } :
        \A i \in 1..Len(s) : \A j \in (i + 1)..Len(s) :
            CellLess(col, s[i].value, s[j].value)

\* ---------------------------------------------------------------------- state

VARIABLES
    program,                \* which of the two programs runs: "gui" or "api"
    df,                     \* GUI: self.df, the loaded frame
    current_df,             \* GUI: self.current_df, the filtered and sorted frame
    sort_state,             \* GUI: self.sort_state, {} or {col: reverse}
    status,                 \* GUI: the status bar's message
    stats_labels,           \* GUI: the "Key Metrics" labels
    tree,                   \* GUI: the rows of the table widget
    heading_rev,            \* GUI: the _rev each heading's command was bound with
    ax1,                    \* GUI: the protocol chart
    ax2,                    \* GUI: the destination chart
    api_df,                 \* API: the global df
    request,                \* API: the request being answered
    response                \* API: its response

gui_vars ==
    <<df, current_df, sort_state, status, stats_labels, tree, heading_rev,
      ax1, ax2>>
api_vars == <<api_df, request, response>>
vars == <<program, gui_vars, api_vars>>

\* dict.get(key, default) on sort_state
SortStateGet(ss, col, default) == IF col \in DOMAIN ss THEN ss[col] ELSE default

\* Every label reads "N/A".
LabelsNA == [text |-> "N/A"]

Chart(title, bars) == [title |-> title, bars |-> bars]

\* The three filter widgets (protocol_filter_var, source_ip_filter_var,
\* dest_ip_filter_var) are read only by apply_filter, so their contents are
\* the inputs of that step: what they hold when it runs.
\* What the user can type into the two entries.
SourceInputs ==
    { <<>>, <<" ">>, <<"a", " ">>, <<"1", ".", "1">>, <<"(">> }
DestInputs == { <<>>, <<"1", ".", "1">> }

\* The values of the read-only protocol combobox once a frame is loaded.
ComboValues(rows) == {All} \cup Present(rows, "Protocol")

\* ------------------------------------------------------------------ GUI steps

\* _clear_dashboard without its first loop: the labels keep what they
\* showed.  The fault C4 rules out.
ClearDashboardKeepingLabels ==
    /\ tree' = <<>>
    /\ ax1' = Chart("No Data to Display", <<>>)
    /\ ax2' = Chart("No Data to Display", <<>>)
    /\ UNCHANGED <<stats_labels, heading_rev>>

\* _clear_dashboard: labels to "N/A", rows deleted, both charts blanked.
\* The headings and their commands stay.
ClearDashboard ==
    /\ stats_labels' = LabelsNA
    /\ tree' = <<>>
    /\ ax1' = Chart("No Data to Display", <<>>)
    /\ ax2' = Chart("No Data to Display", <<>>)
    /\ UNCHANGED heading_rev

\* _update_table binding every heading's command to the default direction,
\* whatever sort_state holds.  The fault C8 rules out.
UpdateTableDefaultBinding(rows, ss) ==
    /\ tree' = HeadN(rows, DisplayCap)
    /\ heading_rev' = [c \in ColumnSet |-> FALSE]

\* _update_table: the first 200 rows, and every heading's command bound to
\* the direction sort_state holds for its column (False when it holds none).
UpdateTable(rows, ss) ==
    /\ tree' = HeadN(rows, DisplayCap)
    /\ heading_rev' = [c \in ColumnSet |-> SortStateGet(ss, c, FALSE)]

\* update_dashboard on the frame cur with sort_state ss: statistics, table
\* and charts, each in its own try.  When the statistics raise, the labels
\* keep what they showed.
UpdateDashboard(cur, ss) ==
    IF cur.isNone \/ cur.rows = <<>>
    THEN ClearDashboard
    ELSE /\ stats_labels' =
                IF StatsRaises(cur.rows) THEN stats_labels ELSE StatsOf(cur.rows)
         /\ UpdateTable(cur.rows, ss)
         /\ \E bars \in ProtocolCounts(cur.rows) :
                ax1' = Chart("Protocol Frequency", bars)
         /\ \E bars \in TopDestIps(cur.rows) :
                ax2' = Chart("Top 5 Destination IPs", bars)

\* load_data, the dialog cancelled.
LoadCancel ==
    /\ program = "gui"
    /\ status' = [msg |-> "Data loading cancelled."]
    /\ UNCHANGED <<df, current_df, sort_state, stats_labels, tree,
                   heading_rev, ax1, ax2>>
    /\ UNCHANGED <<program, api_vars>>

\* load_data without "self.current_df = self.df.copy()": the view survives
\* the load.  The fault C13 rules out.
LoadOkKeepingView(t) ==
    /\ program = "gui"
    /\ df' = Frame(t)
    /\ UpdateDashboard(current_df, sort_state)
    /\ status' = [msg |-> "Successfully loaded packets.", n |-> Len(t)]
    /\ UNCHANGED <<current_df, sort_state>>
    /\ UNCHANGED <<program, api_vars>>

\* load_data, the file read.
LoadOk(t) ==
    /\ program = "gui"
    /\ df' = Frame(t)
    /\ current_df' = Frame(t)
    /\ UpdateDashboard(Frame(t), sort_state)
    /\ status' = [msg |-> "Successfully loaded packets.", n |-> Len(t)]
    /\ UNCHANGED sort_state
    /\ UNCHANGED <<program, api_vars>>

\* load_data, pd.read_csv raising.
LoadFail ==
    /\ program = "gui"
    /\ status' = [msg |-> "Error loading data"]
    /\ df' = NoFrame
    /\ current_df' = NoFrame
    /\ ClearDashboard
    /\ UNCHANGED sort_state
    /\ UNCHANGED <<program, api_vars>>

\* The body of apply_filter with the widgets holding p, s and d.
ApplyFilterBody(p, s, d) ==
    IF df.isNone
    THEN /\ status' = [msg |-> "No data loaded to filter."]
         /\ UNCHANGED <<df, current_df, sort_state, stats_labels, tree,
                        heading_rev, ax1, ax2>>
    ELSE LET f == ApplyFilters(df.rows, p, Strip(s), Strip(d))
         IN  IF f.raised
             THEN /\ status' = [msg |-> "Error applying filter", exc |-> f.exc]
                  /\ UNCHANGED <<df, current_df, sort_state, stats_labels,
                                 tree, heading_rev, ax1, ax2>>
             ELSE /\ current_df' = Frame(f.rows)
                  /\ UpdateDashboard(Frame(f.rows), sort_state)
                  /\ status' =
                        IF (p # <<>> /\ p # All) \/ Strip(s) # <<>> \/ Strip(d) # <<>>
                        THEN [msg |-> "Filters applied.", n |-> Len(f.rows)]
                        ELSE [msg |-> "All filters cleared.", n |-> Len(f.rows)]
                  /\ UNCHANGED <<df, sort_state>>

\* apply_filter runs (the "Apply Filters" button, or the combobox's
\* selection event) with p picked in the combobox and s and d typed in the
\* entries.  Before the first load the combobox is empty.
ApplyFilter(p, s, d) ==
    /\ program = "gui"
    /\ IF df.isNone THEN p = <<>> ELSE p \in ComboValues(df.rows)
    /\ ApplyFilterBody(p, s, d)
    /\ UNCHANGED <<program, api_vars>>

\* clear_filters: the widgets reset, sort_state emptied, apply_filter run.
ClearFilters ==
    /\ program = "gui"
    /\ sort_state' = <<>>
    /\ IF df.isNone
       THEN /\ status' = [msg |-> "No data loaded to filter."]
            /\ UNCHANGED <<df, current_df, stats_labels, tree, heading_rev,
                           ax1, ax2>>
       ELSE LET f == ApplyFilters(df.rows, All, Strip(<<>>), Strip(<<>>))
            IN  /\ current_df' = Frame(f.rows)
                /\ UpdateDashboard(Frame(f.rows), <<>>)
                /\ status' = [msg |-> "All filters cleared.", n |-> Len(f.rows)]
                /\ UNCHANGED df
    /\ UNCHANGED <<program, api_vars>>

\* _sort_treeview with "ascending = reverse" for "ascending = not reverse":
\* the direction recorded and the direction sorted disagree.  The fault C10
\* rules out.
SortTreeviewInverted(col, reverse) ==
    IF current_df.isNone \/ current_df.rows = <<>>
    THEN UNCHANGED gui_vars
    ELSE /\ sort_state' = (col :> reverse)
         /\ IF col \notin ColumnSet
            THEN /\ status' = [msg |-> "Error sorting", col |-> col]
                 /\ UNCHANGED <<current_df, tree, heading_rev>>
            ELSE /\ \E sorted \in SortValues(current_df.rows, col, reverse) :
                        /\ current_df' = Frame(sorted)
                        /\ UpdateTable(sorted, (col :> reverse))
                 /\ status' = [msg |-> "Sorted", col |-> col, reverse |-> reverse]
         /\ UNCHANGED <<df, stats_labels, ax1, ax2>>

\* _sort_treeview sorting in place a view that is the table itself (a load
\* without .copy()): the sort reorders self.df too.  The fault C12 rules
\* out.
SortTreeviewAliased(col, reverse) ==
    IF current_df.isNone \/ current_df.rows = <<>>
    THEN UNCHANGED gui_vars
    ELSE /\ sort_state' = (col :> reverse)
         /\ IF col \notin ColumnSet
            THEN /\ status' = [msg |-> "Error sorting", col |-> col]
                 /\ UNCHANGED <<df, current_df, tree, heading_rev>>
            ELSE /\ \E sorted \in SortValues(current_df.rows, col, ~reverse) :
                        /\ current_df' = Frame(sorted)
                        /\ df' = Frame(sorted)
                        /\ UpdateTable(sorted, (col :> reverse))
                 /\ status' = [msg |-> "Sorted", col |-> col, reverse |-> reverse]
         /\ UNCHANGED <<stats_labels, ax1, ax2>>

\* _sort_treeview(col, reverse)
SortTreeview(col, reverse) ==
    IF current_df.isNone \/ current_df.rows = <<>>
    THEN UNCHANGED gui_vars
    ELSE /\ sort_state' = (col :> reverse)
         /\ IF col \notin ColumnSet
            THEN /\ status' = [msg |-> "Error sorting", col |-> col]
                 /\ UNCHANGED <<current_df, tree, heading_rev>>
            ELSE /\ \E sorted \in SortValues(current_df.rows, col, ~reverse) :
                        /\ current_df' = Frame(sorted)
                        /\ UpdateTable(sorted, (col :> reverse))
                 /\ status' = [msg |-> "Sorted", col |-> col, reverse |-> reverse]
         /\ UNCHANGED <<df, stats_labels, ax1, ax2>>

\* A click on the heading of col runs the command the heading was bound
\* with: _sort_treeview(col, not _rev).
HeaderClick(col) ==
    /\ program = "gui"
    /\ col \in DOMAIN heading_rev
    /\ SortTreeview(col, ~heading_rev[col])
    /\ UNCHANGED <<program, api_vars>>

\* ------------------------------------------------------------------ API steps

Endpoints ==
    {"/api/stats", "/api/data", "/api/plot/protocol", "/api/plot/top_ips",
     "/api/protocols"}

\* The query parameters the model sends: each absent (None) or a string.
ProtocolParams == { None, Some(<<>>), Some(All), Some(TCP) }
SourceParams ==
    { None, Some(<<" ">>), Some(<<"a">>), Some(<<"1", ".", "1">>), Some(<<"(">>) }
DestParams == { None, Some(<<"1", ".", "1">>) }
SortByParams == { None, Some("Length"), Some("Protocol"), Some("Port"), Some("Foo") }
AscendingParams == { None, Some("True"), Some("False") }

Params ==
    [protocol : ProtocolParams, source_ip : SourceParams, dest_ip : DestParams,
     sort_by : SortByParams, ascending : AscendingParams]

\* The string a parameter is tested with: None and '' are both false.
StrOf(o) == IF IsNone(o) THEN <<>> ELSE Val(o)

\* get_filtered_df(params) on a loaded frame: the filters, then the sort
\* when sort_by is given; ascending unless the parameter is given and is
\* not 'True'.
GetFilteredDf(rows, params) ==
    LET f == ApplyFilters(rows, StrOf(params.protocol), StrOf(params.source_ip),
                          StrOf(params.dest_ip))
        sort_by == IF IsNone(params.sort_by) THEN "" ELSE Val(params.sort_by)
        ascending ==
            (IF IsNone(params.ascending) THEN "True" ELSE Val(params.ascending))
                = "True"
    IN  IF f.raised THEN {f}
        ELSE IF sort_by = "" THEN {f}
        ELSE IF sort_by \notin ColumnSet THEN {Raised("KeyError")}
        ELSE { Returned(s) : s \in SortValues(f.rows, sort_by, ascending) }

\* A response: the HTTP status, the kind of body and the body.  An
\* exception no handler catches is answered by flask with status 500.
Resp(code, kind, body) == [code |-> code, kind |-> kind, body |-> body]
Unhandled(exc) == Resp(500, "unhandled exception", exc)

\* strftime('%Y-%m-%d %H:%M:%S') of an instant counted in seconds.
FormatSecond(ts) == ts

\* to_dict('records') after the timestamps are formatted: one object per
\* row, keyed by the column names, the index label left out.
ToRecords(rows) ==
    [i \in 1..Len(rows) |->
        [ts |-> FormatSecond(rows[i].ts), src |-> rows[i].src,
         dst |-> rows[i].dst, proto |-> rows[i].proto, len |-> rows[i].len,
         port |-> rows[i].port]]

\* get_stats
GetStats(frame, params) ==
    IF frame.isNone THEN { Resp(404, "error", "No data") }
    ELSE { IF o.raised THEN Unhandled(o.exc)
           ELSE IF o.rows = <<>> THEN Resp(404, "error", "No data")
           ELSE IF StatsRaises(o.rows) THEN Unhandled("KeyError")
           ELSE Resp(200, "stats", StatsOf(o.rows)) :
               o \in GetFilteredDf(frame.rows, params) }

\* get_data: the empty frame standing for an unloaded table has no
\* 'Timestamp' column to format.
GetData(frame, params) ==
    IF frame.isNone THEN { Unhandled("KeyError") }
    ELSE { IF o.raised THEN Unhandled(o.exc)
           ELSE Resp(200, "rows", ToRecords(HeadN(o.rows, DisplayCap))) :
               o \in GetFilteredDf(frame.rows, params) }

\* get_protocol_plot_data
GetProtocolPlotData(frame, params) ==
    IF frame.isNone THEN { Resp(200, "object", <<>>) }
    ELSE UNION { IF o.raised THEN { Unhandled(o.exc) }
                 ELSE IF o.rows = <<>> THEN { Resp(200, "object", <<>>) }
                 ELSE { Resp(200, "object", JsonObject(e, "Protocol")) :
                            e \in ProtocolCounts(o.rows) } :
                     o \in GetFilteredDf(frame.rows, params) }

\* get_top_ips_plot_data
GetTopIpsPlotData(frame, params) ==
    IF frame.isNone THEN { Resp(200, "object", <<>>) }
    ELSE UNION { IF o.raised THEN { Unhandled(o.exc) }
                 ELSE IF o.rows = <<>> THEN { Resp(200, "object", <<>>) }
                 ELSE { Resp(200, "object", JsonObject(e, "Dest IP")) :
                            e \in TopDestIps(o.rows) } :
                     o \in GetFilteredDf(frame.rows, params) }

\* sorted(values) of a set of strings, as a list.
RECURSIVE SortedList(_)
SortedList(S) ==
    IF S = {} THEN <<>>
    ELSE LET m == CHOOSE x \in S : \A y \in S : ~StrLess(y, x)
         IN  <<m>> \o SortedList(S \ {m})

\* get_protocols
GetProtocols(frame) ==
    IF frame.isNone THEN { Resp(500, "error", "Data not loaded") }
    ELSE { Resp(200, "list", <<All>> \o SortedList(Present(frame.rows, "Protocol"))) }

Handle(frame, endpoint, params) ==
    CASE endpoint = "/api/stats" -> GetStats(frame, params)
      [] endpoint = "/api/data" -> GetData(frame, params)
      [] endpoint = "/api/plot/protocol" -> GetProtocolPlotData(frame, params)
      [] endpoint = "/api/plot/top_ips" -> GetTopIpsPlotData(frame, params)
      [] endpoint = "/api/protocols" -> GetProtocols(frame)

NoRequest == [endpoint |-> "", params |-> <<>>]
NoResponse == Resp(0, "", <<>>)

\* One GET request arrives and its view function answers it.
ApiRequest(endpoint, params) ==
    /\ program = "api"
    /\ request = NoRequest
    /\ request' = [endpoint |-> endpoint, params |-> params]
    /\ response' \in Handle(api_df, endpoint, params)
    /\ UNCHANGED <<program, api_df, gui_vars>>

\* The response is sent and the server waits for the next request.
ApiRespond ==
    /\ program = "api"
    /\ request # NoRequest
    /\ request' = NoRequest
    /\ response' = NoResponse
    /\ UNCHANGED <<program, api_df, gui_vars>>

\* --------------------------------------------------------------- specification

\* The GUI after __init__; the API process with its table loaded by
\* load_data, or left None when the module is served without it.
Init ==
    /\ program \in {"gui", "api"}
    /\ df = NoFrame
    /\ current_df = NoFrame
    /\ sort_state = <<>>
    /\ status = [msg |-> "Application ready. Load data to begin."]
    /\ stats_labels = LabelsNA
    /\ tree = <<>>
    /\ heading_rev = <<>>
    /\ ax1 = Chart("Load data to see Protocol Distribution", <<>>)
    /\ ax2 = Chart("Load data to see Top Destination IPs", <<>>)
    /\ api_df \in IF program = "api" THEN {NoFrame} \cup {Frame(t) : t \in Tables}
                  ELSE {NoFrame}
    /\ request = NoRequest
    /\ response = NoResponse

Next ==
    \/ LoadCancel
    \/ LoadFail
    \/ \E t \in Tables : LoadOk(t)
    \/ \E p \in ComboValues(Pool) \cup {<<>>}, s \in SourceInputs, d \in DestInputs :
           ApplyFilter(p, s, d)
    \/ ClearFilters
    \/ \E col \in ColumnSet : HeaderClick(col)
    \/ \E endpoint \in Endpoints, params \in Params : ApiRequest(endpoint, params)
    \/ ApiRespond

Spec == Init /\ [][Next]_vars

\* A column name the table does not have.
UnknownColumns == {"Foo"}

\* _sort_treeview(col, reverse) called with a column whose sort raises:
\* sort_values raises KeyError on a name that is no column, after
\* sort_state has been assigned, and the except shows the error.
SortTreeviewDirect(col, reverse) ==
    /\ program = "gui"
    /\ col \in UnknownColumns
    /\ SortTreeview(col, reverse)
    /\ UNCHANGED <<program, api_vars>>

\* The program with the failing sort among its steps.
NextSort ==
    \/ Next
    \/ \E col \in UnknownColumns, reverse \in BOOLEAN : SortTreeviewDirect(col, reverse)

SpecSort == Init /\ [][NextSort]_vars

\* ------------------------------------------------------------------- properties

\* What the specification calls a filter spec with no constraint set: the
\* protocol absent, empty or "All", and both substrings empty once trimmed.
NoConstraint(protocol, source, dest) ==
    /\ protocol \in {<<>>, All}
    /\ Strip(source) = <<>>
    /\ Strip(dest) = <<>>

\* The rows of a frame as /api/data sends them: the first DisplayCap rows.
Sent(rows) == ToRecords(HeadN(rows, DisplayCap))

\* A request whose sort_by is absent or empty asks for no sort.
NoSort(params) == IsNone(params.sort_by) \/ Val(params.sort_by) = ""

\* C1 (GUI): apply_filter with no constraint set leaves the view equal to
\* the table, same rows in the same order.
C1_Gui ==
    [][ \A p \in {<<>>, All}, s \in SourceInputs, d \in DestInputs :
            (/\ ~df.isNone
             /\ NoConstraint(p, s, d)
             /\ ApplyFilter(p, s, d)) => current_df' = df ]_vars

\* C1 (API): get_filtered_df with no constraint set and no sort request
\* yields the table, same rows in the same order.
C1_Api ==
    (/\ program = "api"
     /\ ~api_df.isNone
     /\ request.endpoint = "/api/data"
     /\ NoConstraint(StrOf(request.params.protocol),
                     StrOf(request.params.source_ip),
                     StrOf(request.params.dest_ip))
     /\ NoSort(request.params))
        => response = Resp(200, "rows", Sent(api_df.rows))

\* C1: with no constraint set and no sort request, the view equals the
\* full table, same records in the same order, in the GUI apply_filter and
\* in the API get_filtered_df.
C1_NoConstraintFullTable == C1_Gui /\ []C1_Api

\* cell contains sub as a literal substring, ignoring case.
ContainsIgnoreCase(cell, sub) ==
    \E i \in 0..(Len(cell) - Len(sub)) :
        \A k \in 1..Len(sub) : LowerChar(cell[i + k]) = LowerChar(sub[k])

\* The rows that satisfy every predicate given: the protocol equal, the
\* source and the destination address present and containing the substring.
Satisfying(rows, protocol, source, dest) ==
    SelectSeq(rows, LAMBDA r :
        /\ protocol \in {<<>>, All} \/ r.proto = protocol
        /\ source = <<>> \/ (r.src # <<>> /\ ContainsIgnoreCase(r.src, source))
        /\ dest = <<>> \/ (r.dst # <<>> /\ ContainsIgnoreCase(r.dst, dest)))

\* C2 (GUI): apply_filter with a constraint leaves exactly the rows that
\* satisfy every predicate, the substrings being what the entries hold
\* once trimmed.  The filters that raise (a string re.compile refuses, an
\* address column that is no string column) are left to C15: the claim is
\* stated here for the filters that complete.
C2_Gui ==
    [][ \A p \in ComboValues(Pool), s \in SourceInputs, d \in DestInputs :
            (/\ ~df.isNone
             /\ ~NoConstraint(p, s, d)
             /\ ~ApplyFilters(df.rows, p, Strip(s), Strip(d)).raised
             /\ ApplyFilter(p, s, d))
                => current_df' = Frame(Satisfying(df.rows, p, Strip(s), Strip(d))) ]_vars

\* C2 (API): get_filtered_df with a constraint and no sort request yields
\* exactly the rows that satisfy every predicate.
C2_Api ==
    (/\ program = "api"
     /\ ~api_df.isNone
     /\ request.endpoint = "/api/data"
     /\ NoSort(request.params)
     /\ ~ApplyFilters(api_df.rows, StrOf(request.params.protocol),
                      StrOf(request.params.source_ip),
                      StrOf(request.params.dest_ip)).raised
     /\ \/ StrOf(request.params.protocol) \notin {<<>>, All}
        \/ StrOf(request.params.source_ip) # <<>>
        \/ StrOf(request.params.dest_ip) # <<>>)
        => response =
               Resp(200, "rows",
                    Sent(Satisfying(api_df.rows, StrOf(request.params.protocol),
                                    StrOf(request.params.source_ip),
                                    StrOf(request.params.dest_ip))))

\* C2: with at least one constraint the filtered view holds exactly the
\* records that satisfy all the predicates given (protocol equal, source
\* and destination containing the string as a literal substring whatever
\* the case, a missing address never matching), for every filter string,
\* punctuation included.
C2_ExactlyTheMatchingRecords == C2_Gui /\ []C2_Api

\* The filtered rows a request asks statistics of, when its filters and
\* its sort raise nothing: the sort changes no count and no sum.
RequestRows(frame, params) ==
    ApplyFilters(frame.rows, StrOf(params.protocol), StrOf(params.source_ip),
                 StrOf(params.dest_ip)).rows
RequestRaises(frame, params) ==
    \E o \in GetFilteredDf(frame.rows, params) : o.raised

\* q is n / d to the nearest integer.
IsNearest(q, n, d) == 2 * (n - q * d) <= d /\ 2 * (q * d - n) <= d

\* The labels show count, byte sum and average of rows.
ShowsTotalsOf(labels, rows) ==
    /\ labels.text = "stats"
    /\ labels.total_packets = Len(rows)
    /\ labels.total_data_bytes = SumLength(rows)
    /\ IsNearest(labels.avg_packet_size, SumLength(rows), Len(rows))

\* C3: for every non-empty view the statistics are those of the whole
\* view: total_count its number of records, total_bytes the sum of its
\* Length, average_size their quotient (as printed, to the nearest byte),
\* in the GUI's labels and in the answer of /api/stats.
C3_StatsOverWholeView ==
    /\ (/\ program = "gui"
        /\ ~current_df.isNone
        /\ current_df.rows # <<>>)
           => ShowsTotalsOf(stats_labels, current_df.rows)
    /\ (/\ program = "api"
        /\ ~api_df.isNone
        /\ request.endpoint = "/api/stats"
        /\ ~RequestRaises(api_df, request.params)
        /\ RequestRows(api_df, request.params) # <<>>)
           => /\ response.code = 200
              /\ response.kind = "stats"
              /\ ShowsTotalsOf(response.body, RequestRows(api_df, request.params))

\* C4 as amended: on an empty view no statistic is computed and nothing
\* fails; the GUI shows "N/A" in every label and /api/stats answers the
\* error "No data" with status 404.
C4_EmptyViewSentinels ==
    /\ (/\ program = "gui"
        /\ ~current_df.isNone
        /\ current_df.rows = <<>>)
           => stats_labels = LabelsNA
    /\ (/\ program = "api"
        /\ ~api_df.isNone
        /\ request.endpoint = "/api/stats"
        /\ ~RequestRaises(api_df, request.params)
        /\ RequestRows(api_df, request.params) = <<>>)
           => response = Resp(404, "error", "No data")

\* The GUI shows an empty view, reached by a filter that matches nothing.
C4_WitnessGui ==
    /\ program = "gui"
    /\ ~current_df.isNone
    /\ current_df.rows = <<>>
    /\ status.msg = "Filters applied."
    /\ stats_labels = LabelsNA

\* /api/stats answered a request whose filters match nothing.
C4_WitnessApi ==
    /\ program = "api"
    /\ ~api_df.isNone
    /\ request.endpoint = "/api/stats"
    /\ ~RequestRaises(api_df, request.params)
    /\ RequestRows(api_df, request.params) = <<>>
    /\ response.code = 404

\* The statistics of no rows, as C4 states them: count 0, bytes 0,
\* average 0, time range "N/A".
ShowsZeros(labels) ==
    /\ labels.text = "stats"
    /\ labels.total_packets = 0
    /\ labels.total_data_bytes = 0
    /\ labels.avg_packet_size = 0
    /\ labels.time_range = <<>>

\* C4 as stated: on an empty view the statistics are total_count 0,
\* total_bytes 0, average_size 0 and time_range "N/A", without an error,
\* in the GUI's labels and in the answer of /api/stats.
C4_EmptyViewZeros ==
    /\ (/\ program = "gui"
        /\ ~current_df.isNone
        /\ current_df.rows = <<>>)
           => ShowsZeros(stats_labels)
    /\ (/\ program = "api"
        /\ ~api_df.isNone
        /\ request.endpoint = "/api/stats"
        /\ ~RequestRaises(api_df, request.params)
        /\ RequestRows(api_df, request.params) = <<>>)
           => /\ response.code = 200
              /\ response.kind = "stats"
              /\ ShowsZeros(response.body)

\* The first row of rows whose cell in col is v.
FirstSeen(rows, col, v) ==
    CHOOSE i \in 1..Len(rows) :
        /\ Cell(rows[i], col) = v
        /\ \A j \in 1..(i - 1) : Cell(rows[j], col) # v

\* v ranks before w in a frequency result: more occurrences, or as many
\* and seen first.
RanksBefore(rows, col, v, w) ==
    \/ Count(rows, col, v) > Count(rows, col, w)
    \/ /\ Count(rows, col, v) = Count(rows, col, w)
       /\ FirstSeen(rows, col, v) < FirstSeen(rows, col, w)

\* bars is the top-n frequency result of col over rows: the n best ranked
\* values (all of them when there are fewer), each with its exact count,
\* in rank order.
IsTopN(bars, rows, col, n) ==
    LET vals == Present(rows, col)
        shown == {bars[i].value : i \in 1..Len(bars)}
    IN  /\ Len(bars) = IF Cardinality(vals) <= n THEN Cardinality(vals) ELSE n
        /\ \A i \in 1..Len(bars) :
               /\ bars[i].value \in vals
               /\ bars[i].count = Count(rows, col, bars[i].value)
        /\ \A i \in 1..Len(bars) : \A j \in (i + 1)..Len(bars) :
               RanksBefore(rows, col, bars[i].value, bars[j].value)
        /\ \A v \in vals \ shown : \A i \in 1..Len(bars) :
               RanksBefore(rows, col, bars[i].value, v)

\* The status messages that end a step which redrew the charts.
Redrawn ==
    {"Successfully loaded packets.", "Filters applied.", "All filters cleared."}

\* C5: the frequency results list each distinct value with its exact count,
\* at most N of them, most frequent first, equal counts in the order of
\* first appearance in the view: the bars of the two GUI charts once they
\* are redrawn for a view, and the entries of /api/plot/protocol and
\* /api/plot/top_ips in the order they are delivered.
C5_TopNFrequency ==
    /\ (/\ program = "gui"
        /\ ~current_df.isNone
        /\ current_df.rows # <<>>
        /\ status.msg \in Redrawn)
           => /\ IsTopN(ax1.bars, current_df.rows, "Protocol",
                        Cardinality(Present(current_df.rows, "Protocol")))
              /\ IsTopN(ax2.bars, current_df.rows, "Dest IP", TopN)
    /\ (/\ program = "api"
        /\ ~api_df.isNone
        /\ request.endpoint \in {"/api/plot/protocol", "/api/plot/top_ips"}
        /\ NoSort(request.params)
        /\ ~RequestRaises(api_df, request.params)
        /\ RequestRows(api_df, request.params) # <<>>)
           => /\ response.code = 200
              /\ IF request.endpoint = "/api/plot/protocol"
                 THEN IsTopN(response.body, RequestRows(api_df, request.params),
                             "Protocol",
                             Cardinality(Present(RequestRows(api_df, request.params),
                                                 "Protocol")))
                 ELSE IsTopN(response.body, RequestRows(api_df, request.params),
                             "Dest IP", TopN)

\* a and b hold the same records, each as many times.
IsPermutationOf(a, b) ==
    /\ Len(a) = Len(b)
    /\ \A i \in 1..Len(a) :
           Cardinality({k \in 1..Len(a) : a[k] = a[i]})
               = Cardinality({k \in 1..Len(b) : b[k] = a[i]})

\* The present values of col run non-decreasing (ascending) or
\* non-increasing (descending) down rows, and the rows whose cell is
\* missing, which have no value to compare, come after them.
OrderedBy(rows, col, ascending) ==
    \A i \in 1..(Len(rows) - 1) :
        LET a == Cell(rows[i], col)
            b == Cell(rows[i + 1], col)
        IN  IF IsMissing(col, a) THEN IsMissing(col, b)
            ELSE \/ IsMissing(col, b)
                 \/ IF ascending THEN ~CellLess(col, b, a) ELSE ~CellLess(col, a, b)

\* The view of the GUI holds rows.
HasView == program = "gui" /\ ~current_df.isNone /\ current_df.rows # <<>>

\* C6 (GUI): a header click leaves a permutation of the view, in the order
\* of the direction the click asks for, and shows it.
C6_Gui ==
    [][ \A col \in ColumnSet :
            (HasView /\ HeaderClick(col))
                => /\ IsPermutationOf(current_df'.rows, current_df.rows)
                   /\ status'.reverse = ~heading_rev[col]
                   /\ OrderedBy(current_df'.rows, col, ~status'.reverse)
                   /\ tree' = HeadN(current_df'.rows, DisplayCap) ]_vars

\* A request that names a column of the table to sort by.
SortsBy(params) == ~IsNone(params.sort_by) /\ Val(params.sort_by) \in ColumnSet

\* C6 (API): /api/data with sort_by sends a permutation of the filtered
\* rows in order, descending only when ascending is given and is not
\* 'True'.
C6_Api ==
    (/\ program = "api"
     /\ ~api_df.isNone
     /\ request.endpoint = "/api/data"
     /\ SortsBy(request.params)
     /\ ~RequestRaises(api_df, request.params))
        => /\ response.code = 200
           /\ IsPermutationOf(response.body,
                              ToRecords(RequestRows(api_df, request.params)))
           /\ OrderedBy(response.body, Val(request.params.sort_by),
                        \/ IsNone(request.params.ascending)
                        \/ Val(request.params.ascending) = "True")

\* C6: sorting a view by a column returns a permutation of the view whose
\* values in the column are non-decreasing when ascending and
\* non-increasing when descending; an API request with sort_by and no
\* ascending parameter sorts ascending.
C6_SortIsOrderedPermutation == C6_Gui /\ []C6_Api

\* The GUI has sorted three rows by Length, descending: 200, 100, 50.
C6_WitnessGui ==
    /\ HasView
    /\ status.msg = "Sorted"
    /\ status.col = "Length"
    /\ status.reverse
    /\ [i \in 1..Len(current_df.rows) |-> current_df.rows[i].len] = <<200, 100, 50>>

\* /api/data has answered a request with sort_by = Length and no ascending
\* parameter with the three rows in the order 50, 100, 200.
C6_WitnessApi ==
    /\ program = "api"
    /\ request.endpoint = "/api/data"
    /\ request.params.sort_by = Some("Length")
    /\ IsNone(request.params.ascending)
    /\ response.code = 200
    /\ [i \in 1..Len(response.body) |-> response.body[i].len] = <<50, 100, 200>>

\* The place of record r in rows.
IndexOf(rows, r) == CHOOSE i \in 1..Len(rows) : rows[i] = r

\* after keeps, among the records of before with equal cells in col, the
\* order they have in before.
KeepsTies(before, after, col) ==
    \A i \in 1..Len(before) : \A j \in (i + 1)..Len(before) :
        Cell(before[i], col) = Cell(before[j], col)
            => IndexOf(after, before[i]) < IndexOf(after, before[j])

\* C7: sorting is stable: in either direction, two records with equal
\* values in the sort column keep the relative order they had in the view
\* before the sort, in the GUI and in the API.
C7_SortIsStable ==
    /\ [][ \A col \in ColumnSet :
               (HasView /\ HeaderClick(col))
                   => KeepsTies(current_df.rows, current_df'.rows, col) ]_vars
    /\ [](  (/\ program = "api"
             /\ ~api_df.isNone
             /\ request.endpoint = "/api/data"
             /\ SortsBy(request.params)
             /\ ~RequestRaises(api_df, request.params)
             /\ response.code = 200)
                => KeepsTies(ToRecords(RequestRows(api_df, request.params)),
                             response.body, Val(request.params.sort_by)) )

\* C8: a header click on a column sorts in the direction opposite to the
\* one recorded for that column, so that clicks on one column alternate; a
\* click on a column with no record sorts in the fixed first direction
\* (descending) whatever is recorded for another column; and the record
\* left holds the clicked column alone.
C8_HeaderClickToggles ==
    [][ \A col \in ColumnSet :
            (HasView /\ HeaderClick(col))
                => /\ col \in DOMAIN sort_state
                        => sort_state' = (col :> ~sort_state[col])
                   /\ col \notin DOMAIN sort_state
                        => sort_state' = (col :> TRUE)
                   /\ DOMAIN sort_state' = {col}
                   /\ status' = [msg |-> "Sorted", col |-> col,
                                 reverse |-> sort_state'[col]]
                   /\ OrderedBy(current_df'.rows, col, ~sort_state'[col]) ]_vars

\* The second click in a row on Length: the record has flipped back to
\* ascending and the view is in ascending order.
C8_Witness ==
    /\ HasView
    /\ Len(current_df.rows) >= 2
    /\ sort_state = ("Length" :> FALSE)
    /\ status = [msg |-> "Sorted", col |-> "Length", reverse |-> FALSE]
    /\ heading_rev["Length"] = FALSE
    /\ heading_rev["Protocol"] = FALSE

\* C9: a sort request naming a column the table does not have is answered
\* with an explicit request error, never with the unsorted rows and never
\* with an unhandled exception.
C9_UnknownColumnReported ==
    (/\ program = "api"
     /\ ~api_df.isNone
     /\ request.endpoint \in Endpoints \ {"/api/protocols"}
     /\ ~IsNone(request.params.sort_by)
     /\ Val(request.params.sort_by) \notin ColumnSet \cup {""}
     /\ ~ApplyFilters(api_df.rows, StrOf(request.params.protocol),
                      StrOf(request.params.source_ip),
                      StrOf(request.params.dest_ip)).raised)
        => /\ response.kind = "error"
           /\ response.code >= 400
           /\ response.code < 500

\* Every row of rows has a value in col and no two have the same.
DistinctValued(rows, col) ==
    /\ \A i \in 1..Len(rows) : ~IsMissing(col, Cell(rows[i], col))
    /\ \A i \in 1..Len(rows) : \A j \in (i + 1)..Len(rows) :
           Cell(rows[i], col) # Cell(rows[j], col)

Reverse(rows) == [i \in 1..Len(rows) |-> rows[Len(rows) + 1 - i]]

\* C10 as stated: when a click sorts a distinct-valued column ascending,
\* the descending sort the next click on it performs restores the order
\* the view had before the two sorts.
C10_RoundTripRestores ==
    [][ \A col \in ColumnSet :
            (/\ HasView
             /\ DistinctValued(current_df.rows, col)
             /\ heading_rev[col]
             /\ HeaderClick(col))
                => \A back \in SortValues(current_df'.rows, col, FALSE) :
                       back = current_df.rows ]_vars

\* C10 as amended: on a column whose values are pairwise distinct and none
\* missing, a sort followed by the sort in the toggled direction leaves the
\* exact reverse of the first sort's result: ascending then descending ends
\* in descending order, which is the order before the two sorts only when
\* the view was in descending order already.
C10_RoundTripReverses ==
    [][ \A col \in ColumnSet :
            (/\ HasView
             /\ DistinctValued(current_df.rows, col)
             /\ HeaderClick(col))
                => /\ heading_rev[col]
                        => \A back \in SortValues(current_df'.rows, col, FALSE) :
                               /\ back = Reverse(current_df'.rows)
                               /\ back = current_df.rows
                                      <=> OrderedBy(current_df.rows, col, FALSE)
                   /\ (status.msg = "Sorted" /\ status.col = col)
                        => current_df'.rows = Reverse(current_df.rows) ]_vars

\* Three rows of distinct Length, loaded as 100, 200, 50: a click has
\* sorted them descending and the next click, ascending, has left the
\* reverse, 50, 100, 200.
C10_Witness ==
    /\ HasView
    /\ [i \in 1..Len(df.rows) |-> df.rows[i].len] = <<100, 200, 50>>
    /\ [i \in 1..Len(current_df.rows) |-> current_df.rows[i].len] = <<50, 100, 200>>
    /\ status = [msg |-> "Sorted", col |-> "Length", reverse |-> FALSE]
    /\ sort_state = ("Length" :> FALSE)

\* The request that carries what the GUI's widgets hold: p picked in the
\* combobox, s and d as typed in the entries, no sort.
ParamsOf(p, s, d) ==
    [protocol |-> Some(p), source_ip |-> Some(s), dest_ip |-> Some(d),
     sort_by |-> None, ascending |-> None]

\* C11: for the same table and the same parameters, whitespace in the
\* strings included, the GUI's apply_filter leaves the view that the API's
\* get_filtered_df returns, in the same order, and shows the statistics
\* that /api/stats answers.
C11_FrontEndsAgree ==
    [][ \A p \in ComboValues(Pool), s \in SourceInputs, d \in DestInputs :
            (/\ ~df.isNone
             /\ ApplyFilter(p, s, d))
                => /\ \A o \in GetFilteredDf(df.rows, ParamsOf(p, s, d)) :
                          IF o.raised
                          THEN status'.msg = "Error applying filter"
                          ELSE /\ status'.msg \in {"Filters applied.",
                                                   "All filters cleared."}
                               /\ current_df'.rows = o.rows
                   /\ \A r \in GetStats(df, ParamsOf(p, s, d)) :
                          r.code = 200 => stats_labels' = r.body ]_vars

\* C12: the stored table is never mutated after load.  self.df changes
\* only in a step of load_data (the steps that end with a load status): no
\* apply_filter, clear_filters, header click or cancelled load changes it;
\* no request changes the API's global df; and the stored table is at
\* every moment a table as read_csv returned it, its records in file order
\* with the row labels 0, 1, 2, ... of the load.
C12_TableNeverMutated ==
    /\ [][ df' # df
               => status'.msg \in {"Successfully loaded packets.",
                                   "Error loading data"} ]_vars
    /\ [][ api_df' = api_df ]_vars
    /\ [](df.isNone \/ df.rows \in Tables)
    /\ [](api_df.isNone \/ api_df.rows \in Tables)

\* A three-row table has been sorted by a header click: the view is in
\* another order than the table, which is as it was loaded.
C12_Witness ==
    /\ HasView
    /\ status.msg = "Sorted"
    /\ Len(df.rows) = 3
    /\ Len(current_df.rows) = 3
    /\ current_df.rows # df.rows
    /\ df.rows \in Tables

\* Every record of view is a record of table, at least as many times: the
\* records are compared whole, row label included.
IsSubBagOf(view, table) ==
    \A i \in 1..Len(view) :
        Cardinality({k \in 1..Len(view) : view[k] = view[i]})
            <= Cardinality({k \in 1..Len(table) : table[k] = view[i]})

\* C13: in every GUI state either no table is loaded and df and current_df
\* are both None, or both are frames and every record of the view is a
\* record of the current table, with multiplicity (so no record of a table
\* loaded before remains); and in the state a successful load leaves, the
\* view is the new table.
C13_ViewWithinTable ==
    /\ df.isNone <=> current_df.isNone
    /\ ~df.isNone => IsSubBagOf(current_df.rows, df.rows)
    /\ (program = "gui" /\ status.msg = "Successfully loaded packets.")
           => ~df.isNone /\ current_df = df

\* A second table has been loaded over a sorted or filtered view of
\* another one: the record sort_state holds dates from before the load,
\* and the view is the new table, whose first row is the pool's second.
C13_Witness ==
    /\ program = "gui"
    /\ status.msg = "Successfully loaded packets."
    /\ sort_state # <<>>
    /\ ~df.isNone
    /\ Len(df.rows) = 3
    /\ df.rows[1].len = 200
    /\ current_df = df

\* The request meets an unavailable dataset or an empty view: the table is
\* not loaded, or the endpoint filters and its filters keep no row.
NoDataCase ==
    /\ program = "api"
    /\ request # NoRequest
    /\ \/ api_df.isNone
       \/ /\ request.endpoint # "/api/protocols"
          /\ ~RequestRaises(api_df, request.params)
          /\ RequestRows(api_df, request.params) = <<>>

\* C14: on every endpoint, an unavailable dataset or an empty filtered
\* view is answered with an explicit error response (an error status and
\* an error body), never with an empty success body and never with an
\* unhandled exception.
C14_NoDataIsAnError ==
    NoDataCase
        => /\ response.kind = "error"
           /\ response.code >= 400

\* C15: filtering has no error outcome.  On a loaded table, whatever the
\* protocol and the two strings (empty, blank or with punctuation such as
\* "("), the GUI's apply_filter completes and sets the view, and the API's
\* get_filtered_df completes, so that /api/data without a sort answers
\* with rows.
C15_FilterNeverFails ==
    /\ [][ \A p \in ComboValues(Pool), s \in SourceInputs, d \in DestInputs :
               (/\ ~df.isNone
                /\ ApplyFilter(p, s, d))
                   => /\ status'.msg \in {"Filters applied.", "All filters cleared."}
                      /\ IsSubBagOf(current_df'.rows, df.rows)
                      /\ tree' = HeadN(current_df'.rows, DisplayCap) ]_vars
    /\ []( (/\ program = "api"
            /\ ~api_df.isNone
            /\ request.endpoint = "/api/data"
            /\ NoSort(request.params))
               => /\ response.code = 200
                  /\ response.kind = "rows" )

\* C16: when a filter or a sort fails in the GUI (the step ends with the
\* error message of apply_filter's or _sort_treeview's except), the prior
\* state is unaffected: the table, the view, the recorded sort direction
\* and the directions the headings are bound with are as before the step.
C16_FailureLeavesStateAlone ==
    [][ (/\ program = "gui"
         /\ status'.msg \in {"Error applying filter", "Error sorting"})
            => /\ df' = df
               /\ current_df' = current_df
               /\ sort_state' = sort_state
               /\ heading_rev' = heading_rev ]_vars

\* rows is in the order of the load: the row labels increase.
InLoadOrder(rows) ==
    \A i \in 1..(Len(rows) - 1) : rows[i].idx < rows[i + 1].idx

\* C17: in every GUI state the recorded sort direction agrees with the
\* view: when sort_state records {c: reverse} the view is ordered by c,
\* descending when reverse and ascending otherwise (so a filter applied
\* after a sort leaves the kept records in the sorted order), and when
\* sort_state is empty the view is in the table's load order.
C17_SortStateAgreesWithView ==
    HasView
        => /\ \A c \in DOMAIN sort_state :
                  OrderedBy(current_df.rows, c, ~sort_state[c])
           /\ sort_state = <<>> => InLoadOrder(current_df.rows)

====
